---- MODULE Spec2Model ----
(***************************************************************************)
(* Model of the @Cache property decorator of vue-cache-decorator           *)
(* (src/src/cache.ts).                                                     *)
(*                                                                         *)
(* JavaScript strings are sequences of one-character strings, so that the  *)
(* key derivation (a regular-expression replace) and Object.assign over a  *)
(* string source can be computed the way the code computes them.           *)
(* JavaScript values are records [k, n, s, f]:                             *)
(*   k  the kind: "undef" "null" "num" "bool" "str" "obj" "arr"            *)
(*   n  the number (num), 0/1 (bool), the length (arr)                     *)
(*   s  the characters (str)                                               *)
(*   f  the own enumerable properties (obj, arr), a function from property *)
(*      names to values; an array index missing from f is a hole           *)
(* Property order inside an object is not modelled: serialisation lists    *)
(* the properties in the fixed order KeySeq.                               *)
(* JSON texts are sequences of tokens [t, n, s].                           *)
(***************************************************************************)
EXTENDS Integers, Sequences, FiniteSets, TLC

EmptyF == [x \in {} |-> x]

Chr(c) == <<c>>

\* ---------------------------------------------------------------- values
Val(k, n, s, f) == [k |-> k, n |-> n, s |-> s, f |-> f]

Undef == Val("undef", 0, <<>>, EmptyF)

Null == Val("null", 0, <<>>, EmptyF)

Num(n) == Val("num", n, <<>>, EmptyF)

Bool(b) == Val("bool", IF b THEN 1 ELSE 0, <<>>, EmptyF)

Str(s) == Val("str", 0, s, EmptyF)

Obj(f) == Val("obj", 0, <<>>, f)

Arr(n, f) == Val("arr", n, <<>>, f)

\* the JavaScript typeof operator
TypeOf(v) ==
    CASE v.k = "undef" -> "undefined"
      [] v.k = "num" -> "number"
      [] v.k = "str" -> "string"
      [] v.k = "bool" -> "boolean"
      [] OTHER -> "object"

\* JavaScript truthiness (ToBoolean)
Truthy(v) ==
    CASE v.k \in {"undef", "null"} -> FALSE
      [] v.k \in {"num", "bool"} -> v.n # 0
      [] v.k = "str" -> v.s # <<>>
      [] OTHER -> TRUE

\* the decimal digits, used for array indices and for the numeric part of a tag
Digits == <<"0", "1", "2", "3", "4", "5", "6", "7", "8", "9">>

IsDigit(c) == \E i \in 1..Len(Digits) : Digits[i] = c

\* the property name of array index i (indices below ten are enough here)
IdxKey(i) == <<Digits[i + 1]>>

\* every property name of the model, in the order serialisation lists them
KeySeq == <<IdxKey(0), IdxKey(1), IdxKey(2), <<>>, Chr("a"), Chr("b")>>

\* ------------------------------------------------------------ JSON text
Tok(t, n, s) == [t |-> t, n |-> n, s |-> s]

P(c) == Tok(c, 0, <<>>)

RECURSIVE SerMembers(_, _, _)
RECURSIVE SerElems(_, _, _)
RECURSIVE Ser(_)
\* JSON.stringify of a value that is not undefined
Ser(v) ==
    CASE v.k = "null" -> <<P("null")>>
      [] v.k = "num" -> <<Tok("num", v.n, <<>>)>>
      [] v.k = "bool" -> <<P(IF v.n = 1 THEN "true" ELSE "false")>>
      [] v.k = "str" -> <<Tok("str", 0, v.s)>>
      [] v.k = "obj" -> <<P("{")>> \o SerMembers(v.f, 1, TRUE) \o <<P("}")>>
      [] v.k = "arr" -> <<P("[")>> \o SerElems(v, 0, TRUE) \o <<P("]")>>
      [] OTHER -> <<P("null")>>

\* the members of an object; a property whose value is undefined is omitted
SerMembers(f, i, first) ==
    IF i > Len(KeySeq) THEN <<>>
    ELSE IF KeySeq[i] \in DOMAIN f /\ f[KeySeq[i]].k # "undef"
         THEN (IF first THEN <<>> ELSE <<P(",")>>)
              \o <<Tok("str", 0, KeySeq[i]), P(":")>> \o Ser(f[KeySeq[i]])
              \o SerMembers(f, i + 1, FALSE)
         ELSE SerMembers(f, i + 1, first)

\* the elements of an array; a hole or an undefined element is written null
SerElems(v, i, first) ==
    IF i >= v.n THEN <<>>
    ELSE (IF first THEN <<>> ELSE <<P(",")>>)
         \o (IF IdxKey(i) \in DOMAIN v.f /\ v.f[IdxKey(i)].k # "undef"
             THEN Ser(v.f[IdxKey(i)]) ELSE <<P("null")>>)
         \o SerElems(v, i + 1, FALSE)

\* JSON.stringify(v) handed to Storage.setItem: stringify returns undefined
\* for undefined, and setItem converts its argument to a string
Stringify(v) == IF v.k = "undef" THEN <<P("undefined")>> ELSE Ser(v)

Fail == [ok |-> FALSE, v |-> Undef, i |-> 0]

RECURSIVE ParseValue(_, _)
RECURSIVE ParseMembers(_, _, _)
RECURSIVE ParseElems(_, _, _, _)
\* recursive descent over the tokens from position i: [ok, v, i] with i the
\* position after the value
ParseValue(ts, i) ==
    IF i > Len(ts) THEN Fail
    ELSE CASE ts[i].t = "num" -> [ok |-> TRUE, v |-> Num(ts[i].n), i |-> i + 1]
           [] ts[i].t = "str" -> [ok |-> TRUE, v |-> Str(ts[i].s), i |-> i + 1]
           [] ts[i].t = "true" -> [ok |-> TRUE, v |-> Bool(TRUE), i |-> i + 1]
           [] ts[i].t = "false" -> [ok |-> TRUE, v |-> Bool(FALSE), i |-> i + 1]
           [] ts[i].t = "null" -> [ok |-> TRUE, v |-> Null, i |-> i + 1]
           [] ts[i].t = "{" ->
                IF i + 1 <= Len(ts) /\ ts[i + 1].t = "}"
                THEN [ok |-> TRUE, v |-> Obj(EmptyF), i |-> i + 2]
                ELSE ParseMembers(ts, i + 1, EmptyF)
           [] ts[i].t = "[" ->
                IF i + 1 <= Len(ts) /\ ts[i + 1].t = "]"
                THEN [ok |-> TRUE, v |-> Arr(0, EmptyF), i |-> i + 2]
                ELSE ParseElems(ts, i + 1, 0, EmptyF)
           [] OTHER -> Fail

\* name : value { , name : value } "}"
ParseMembers(ts, i, acc) ==
    IF i + 1 > Len(ts) \/ ts[i].t # "str" \/ ts[i + 1].t # ":" THEN Fail
    ELSE LET r == ParseValue(ts, i + 2) IN
         IF ~r.ok \/ r.i > Len(ts) THEN Fail
         ELSE LET acc2 == (ts[i].s :> r.v) @@ acc IN
              CASE ts[r.i].t = "}" -> [ok |-> TRUE, v |-> Obj(acc2), i |-> r.i + 1]
                [] ts[r.i].t = "," -> ParseMembers(ts, r.i + 1, acc2)
                [] OTHER -> Fail

\* value { , value } "]"
ParseElems(ts, i, n, acc) ==
    LET r == ParseValue(ts, i) IN
    IF ~r.ok \/ r.i > Len(ts) THEN Fail
    ELSE LET acc2 == (IdxKey(n) :> r.v) @@ acc IN
         CASE ts[r.i].t = "]" -> [ok |-> TRUE, v |-> Arr(n + 1, acc2), i |-> r.i + 1]
           [] ts[r.i].t = "," -> ParseElems(ts, r.i + 1, n + 1, acc2)
           [] OTHER -> Fail

\* what Storage.getItem returns for a key that is not stored (null)
NoItem == <<>>

\* JSON.parse(text): the argument is converted to a string first, so the null
\* that getItem returns for an absent key parses as the JSON text null.
\* [ok, v]; ok = FALSE is the SyntaxError JSON.parse throws.
JsonParse(text) ==
    IF text = NoItem THEN [ok |-> TRUE, v |-> Null]
    ELSE LET r == ParseValue(text, 1) IN
         IF r.ok /\ r.i = Len(text) + 1 THEN [ok |-> TRUE, v |-> r.v]
         ELSE [ok |-> FALSE, v |-> Undef]

\* ------------------------------------------------------- decorator options
\* an except / only option: absent ("none"), one name ("name", names[1]) or
\* an array of names ("list")
NoNames == [form |-> "none", names |-> <<>>]

OneName(e) == [form |-> "name", names |-> <<e>>]

NameList(es) == [form |-> "list", names |-> es]

\* truthiness of an except / only option: an array is always truthy, a
\* string is truthy unless empty, undefined is falsy
OptTruthy(o) == o.form = "list" \/ (o.form = "name" /\ o.names[1] # <<>>)

\* lodash cloneDeep: a structurally equal, independent value
cloneDeep(v) == v

\* delete v[name]: removes an own property of an object or array (an array
\* keeps its length, the index becomes a hole); on a number or boolean, and on
\* a string for a name that is not one of its own properties, it does nothing
Delete(v, name) ==
    IF v.k \in {"obj", "arr"}
    THEN [v EXCEPT !.f = [k \in (DOMAIN v.f) \ {name} |-> v.f[k]]]
    ELSE v

RECURSIVE DeleteAll(_, _, _)
DeleteAll(v, names, i) ==
    IF i > Len(names) THEN v ELSE DeleteAll(Delete(v, names[i]), names, i + 1)

\* purgeExceptList with a slip: of an array of names only the first is deleted
purgeExceptListFirstOnly(value, except) ==
    LET newValue == cloneDeep(value) IN
    IF OptTruthy(except) /\ Truthy(newValue)
    THEN Delete(newValue, except.names[1])
    ELSE newValue

purgeExceptList(value, except) ==
    LET newValue == cloneDeep(value) IN
    IF OptTruthy(except) /\ Truthy(newValue)
    THEN DeleteAll(newValue, except.names, 1)
    ELSE newValue

LengthKey == <<"l", "e", "n", "g", "t", "h">>

\* the array indices a string of the given length owns
StrIdx(s) == {IdxKey(i) : i \in 0..(Len(s) - 1)}

\* Object.getOwnPropertyNames(v)
OwnNames(v) ==
    CASE v.k = "obj" -> DOMAIN v.f
      [] v.k = "arr" -> (DOMAIN v.f) \cup {LengthKey}
      [] v.k = "str" -> StrIdx(v.s) \cup {LengthKey}
      [] OTHER -> {}

\* own properties that delete cannot remove: the module is compiled as an
\* ES module, hence strict code, where such a delete throws a TypeError
NonConfigurable(v) ==
    CASE v.k = "arr" -> {LengthKey}
      [] v.k = "str" -> StrIdx(v.s) \cup {LengthKey}
      [] OTHER -> {}

\* only.find(o => o === p): the element found, or undefined; the caller
\* tests the result for truthiness
FindTruthy(only, p) ==
    \E i \in 1..Len(only.names) : only.names[i] = p /\ only.names[i] # <<>>

\* whether purgeOnlyList keeps own property p
OnlyKeeps(only, p) ==
    IF only.form = "list" THEN FindTruthy(only, p) ELSE p = only.names[1]

\* [err, v]: err is the TypeError of deleting a non-configurable property
purgeOnlyList(value, only) ==
    LET newValue == cloneDeep(value) IN
    IF OptTruthy(only) /\ Truthy(newValue)
    THEN LET drop == {p \in OwnNames(newValue) : ~OnlyKeeps(only, p)} IN
         IF drop \cap NonConfigurable(newValue) # {}
         THEN [err |-> TRUE, v |-> Undef]
         ELSE [err |-> FALSE,
               v |-> IF newValue.k \in {"obj", "arr"}
                     THEN [newValue EXCEPT !.f = [k \in (DOMAIN newValue.f) \ drop |-> newValue.f[k]]]
                     ELSE newValue]
    ELSE [err |-> FALSE, v |-> newValue]

\* modifier with a slip: the only option is tested before the except option
modifierOnlyFirst(opts, v) ==
    IF OptTruthy(opts.only) THEN purgeOnlyList(v, opts.only)
    ELSE IF OptTruthy(opts.except) THEN [err |-> FALSE, v |-> purgeExceptList(v, opts.except)]
    ELSE [err |-> FALSE, v |-> v]

\* the modifier chosen at installation, applied to a value: [err, v]
modifier(opts, v) ==
    IF OptTruthy(opts.except) THEN [err |-> FALSE, v |-> purgeExceptList(v, opts.except)]
    ELSE IF OptTruthy(opts.only) THEN purgeOnlyList(v, opts.only)
    ELSE [err |-> FALSE, v |-> v]

\* cloneDeep with a slip: the object returned is the argument itself
cloneRefSame(ref) == ref

\* the object cloneDeep returns is a new one, never its argument
cloneRef(ref) == "copy"

\* The value of the live property after the modifier ran on it.  The handler
\* has two objects at hand, the live value and the copy cloneDeep made; the
\* deletes of the purge functions act on the object cloneDeep returned.
liveAfter(opts, value) ==
    LET filtered == OptTruthy(opts.except) \/ OptTruthy(opts.only)
        newValue == IF filtered THEN cloneRef("live") ELSE "live"
        m == modifier(opts, value)
        heap == [live |-> value, copy |-> value]
    IN  IF filtered /\ ~m.err THEN [heap EXCEPT ![newValue] = m.v].live ELSE heap.live

\* the own enumerable properties Object.assign copies from a source: those of
\* an object or array, the characters of a string, nothing for the rest
OwnEnum(v) ==
    CASE v.k \in {"obj", "arr"} -> v.f
      [] v.k = "str" -> [k \in StrIdx(v.s) |->
                            Str(<<v.s[(CHOOSE i \in 0..(Len(v.s) - 1) : IdxKey(i) = k) + 1]>>)]
      [] OTHER -> EmptyF

\* Object.assign(Object.assign({}, a), b): always a new plain object
merge(a, b) == Obj(OwnEnum(b) @@ OwnEnum(a))

simpleTypes == {"undefined", "number", "string", "boolean"}

\* ------------------------------------------------------------- makeKey
TagLit == <<"v", "u", "e", "-", "c", "o", "m", "p", "o", "n", "e", "n", "t", "-">>

\* the number of digits of tag from position j on
RECURSIVE DigitRun(_, _)
DigitRun(tag, j) ==
    IF j <= Len(tag) /\ IsDigit(tag[j]) THEN 1 + DigitRun(tag, j + 1) ELSE 0

\* MatchAt with a slip: the pattern /vue-component-\d-/, a single digit
MatchAtOneDigit(tag, i) ==
    /\ i + Len(TagLit) + 1 <= Len(tag)
    /\ SubSeq(tag, i, i + Len(TagLit) - 1) = TagLit
    /\ DigitRun(tag, i + Len(TagLit)) = 1
    /\ tag[i + Len(TagLit) + 1] = "-"

\* /vue-component-\d+-/ matches at position i: the literal, one or more
\* digits, a dash (a shorter digit run is followed by a digit, never a dash)
MatchAt(tag, i) ==
    /\ i + Len(TagLit) - 1 <= Len(tag)
    /\ SubSeq(tag, i, i + Len(TagLit) - 1) = TagLit
    /\ DigitRun(tag, i + Len(TagLit)) >= 1
    /\ i + Len(TagLit) + DigitRun(tag, i + Len(TagLit)) <= Len(tag)
    /\ tag[i + Len(TagLit) + DigitRun(tag, i + Len(TagLit))] = "-"

\* tag.replace(/vue-component-\d+-/, ""): the first match is removed
StripTag(tag) ==
    IF \E i \in 1..Len(tag) : MatchAt(tag, i)
    THEN LET i == CHOOSE j \in 1..Len(tag) :
                      MatchAt(tag, j) /\ \A h \in 1..(j - 1) : ~MatchAt(tag, h)
             e == i + Len(TagLit) + DigitRun(tag, i + Len(TagLit))
         IN SubSeq(tag, 1, i - 1) \o SubSeq(tag, e + 1, Len(tag))
    ELSE tag

\* vm is [vnode, tag]: vnode FALSE is a missing $vnode, tag <<>> a missing
\* tag.  [err, key, warn]: err is the TypeError of reading vm.$vnode.tag
\* when $vnode is undefined.
makeKey(vm, key, opts) ==
    IF opts.cacheKey # <<>> THEN [err |-> FALSE, key |-> opts.cacheKey, warn |-> FALSE]
    ELSE IF ~vm.vnode THEN [err |-> TRUE, key |-> <<>>, warn |-> FALSE]
    ELSE IF vm.tag = <<>> THEN [err |-> FALSE, key |-> key, warn |-> TRUE]
    ELSE LET name == StripTag(vm.tag) IN
         [err |-> FALSE,
          key |-> (IF Len(name) = 0 THEN vm.tag ELSE name) \o <<"[">> \o key \o <<"]">>,
          warn |-> FALSE]

\* ------------------------------------------------------------ the state
VARIABLES
    cacheOptions,   \* the decorator's argument: [except, only, globalDispatch, cacheKey]
    key,            \* the name of the decorated property
    target,         \* the class: [def, member]; def is the property's initialiser,
                    \* member whether target[key] is defined (a method, an accessor)
    options,        \* the component options the factory edits: [name, table, entry, old, hook]
    pc,             \* "declared", then "installed", "skipped" or "failed"
    log,            \* the console messages written so far
    host,           \* [cid, mount]: the numeric id the framework gave the component
                    \* constructor in this page session, and how instances are mounted
    vm,             \* the live instance: [alive, vnode, tag, prop, dirty]
    store,          \* the Storage: a function from the stored keys to texts
    readKeys,       \* the keys passed to store.getItem so far
    lastCreate,     \* what the latest run of the created hook did
    lastFlush,      \* what the latest run of the property's watchers did
    pending,        \* the changes of the property its watchers have not handled yet:
                    \* "none", "nested" (only writes inside the value), "restore"
                    \* (only the created hook's set) or "assign"
    comp,           \* a component with several decorated properties
    kin,            \* the arguments of the latest stand-alone call of makeKey
    kout            \* and its result

vars == <<cacheOptions, key, target, options, pc, log, host, vm, store, readKeys,
          lastCreate, lastFlush, pending, comp, kin, kout>>

\* what no step of a component's life changes
decl == <<cacheOptions, key, target, comp, kin, kout>>

\* ------------------------------------------------------------ the inputs
KA == Chr("a")

KB == Chr("b")

KEmpty == <<>>

Obj2(k1, v1, k2, v2) == Obj((k1 :> v1) @@ (k2 :> v2))

\* the number of numeric ids the framework may give the component constructor
MaxCid == 2

\* the largest number a mutation writes into the field a of an object
MaxNum == 2

\* the numeric ids the framework may give a component constructor
CidDigits == <<Chr("5"), <<"1", "2">>, Chr("7"), <<"4", "0">>>>

Cids == {CidDigits[i] : i \in 1..MaxCid}

\* the initialisers of the decorated property
Defaults ==
    {Num(42), Str(Chr("x")), Bool(TRUE), Null,
     Obj2(KA, Num(1), KB, Num(2)),
     Arr(2, (IdxKey(0) :> Num(1)) @@ (IdxKey(1) :> Num(2)))}

\* the values a mutation may give the property
PropValues ==
    {Undef, Null, Str(<<"h", "i">>), Arr(1, (IdxKey(0) :> Num(7))),
     Obj2(KEmpty, Num(1), KA, Num(2)),
     Obj((KA :> Obj((KB :> Num(1)))))}
    \cup {Num(n + 4) : n \in 1..(MaxNum - 1)}
    \cup {Obj2(KA, Num(n), KB, Num(3)) : n \in 2..MaxNum}

ExceptChoices == {NoNames, OneName(KA), NameList(<<KB, KEmpty>>)}

OnlyChoices == {NoNames, OneName(KA), NameList(<<KEmpty, KA>>)}

\* the pre-existing options.watch[key]: [type, items]
Entry(type, items) == [type |-> type, items |-> items]

WatchEntries ==
    {Entry("undefined", <<>>), Entry("function", <<>>), Entry("string", <<>>),
     Entry("object", <<>>), Entry("array", <<"function", "object">>)}

\* no component with several decorated properties is declared
NoComp == [props |-> <<>>]

NoCreate == [raised |-> FALSE, restored |-> FALSE, old |-> 0]

NoFlush == [pre |-> 0, ran |-> FALSE, newValue |-> Undef, events |-> <<>>,
            seen |-> NoItem, err |-> FALSE, wrote |-> FALSE]

NoVm == [alive |-> FALSE, vnode |-> FALSE, tag |-> <<>>, prop |-> Undef, dirty |-> FALSE]

Opts(except, only, globalDispatch, cacheKey) ==
    [except |-> except, only |-> only, globalDispatch |-> globalDispatch,
     cacheKey |-> cacheKey]

\* the options with the documented deep option given
WithDeep(opts, deep) == [deep |-> deep] @@ opts

\* the deep option as configured: "true", "false" or "unset"
DeepOption(opts) ==
    IF "deep" \in DOMAIN opts THEN (IF opts.deep THEN "true" ELSE "false") ELSE "unset"

\* the deep flag of the watcher the factory pushes: the literal true,
\* whatever the options say
watchDeep(opts) == TRUE

\* the part of the initial state every specification shares
InitRest ==
    /\ pc = "declared"
    /\ log = {}
    /\ vm = NoVm
    /\ store = EmptyF
    /\ readKeys = {}
    /\ lastCreate = NoCreate
    /\ lastFlush = NoFlush
    /\ pending = "none"
    /\ comp = NoComp

\* the arguments of makeKey, the tag in its parts: the literal
\* "vue-component-" (pre), digits, a dash, a name
Kin(vnode, pre, digits, dash, name, k, cacheKey) ==
    [vnode |-> vnode, pre |-> pre, digits |-> digits, dash |-> dash, name |-> name,
     key |-> k, cacheKey |-> cacheKey]

NoKin == Kin(FALSE, FALSE, <<>>, FALSE, <<>>, <<>>, <<>>)

NoKout == [done |-> FALSE, err |-> FALSE, key |-> <<>>, warn |-> FALSE]

KeyInputs ==
    {Kin(v, p, d, h, n, k, c) :
        v \in BOOLEAN, p \in BOOLEAN, d \in {<<>>} \cup Cids, h \in BOOLEAN,
        n \in {<<>>, Chr("T"), <<"T", "b">>}, k \in {Chr("f"), <<"p", "g">>},
        c \in {<<>>, Chr("K")}}

Component(name, entry, table, old) ==
    [name |-> name, table |-> table, entry |-> entry, old |-> old, hook |-> FALSE]

NamedTb == <<"T", "b">>

ObjDefault == Obj2(KA, Num(1), KB, Num(2))

\* a named component with one decorated data property and a created hook of
\* its own; every filter configuration and every initialiser
Init ==
    /\ \E e \in ExceptChoices, o \in OnlyChoices :
          /\ (e = NoNames \/ o = NoNames)
          /\ cacheOptions = Opts(e, o, <<>>, <<>>)
    /\ key = Chr("f")
    /\ \E d \in Defaults : target = [def |-> d, member |-> FALSE]
    /\ options = Component(NamedTb, Entry("undefined", <<>>), TRUE, TRUE)
    /\ \E c \in Cids : host = [cid |-> c, mount |-> "child"]
    /\ kin = NoKin /\ kout = NoKout
    /\ InitRest

\* ------------------------------------------------------------ the actions
\* Install with a slip: the test of target[key] is left out
InstallAnyMember ==
    /\ pc = "declared"
    /\ LET e0 == IF options.table THEN options.entry ELSE Entry("undefined", <<>>)
           e1 == IF e0.type = "object" THEN Entry("array", <<"object">>)
                 ELSE IF e0.type = "undefined" THEN Entry("array", <<>>)
                 ELSE e0
       IN  /\ log' = log
           /\ IF e1.type = "array"
              THEN /\ pc' = "installed"
                   /\ options' = [options EXCEPT !.table = TRUE,
                                     !.entry = Entry("array", Append(e1.items, "cache")),
                                     !.hook = TRUE]
              ELSE /\ pc' = "failed"
                   /\ options' = [options EXCEPT !.table = TRUE, !.entry = e1]
    /\ UNCHANGED <<decl, host, vm, store, readKeys, lastCreate, lastFlush, pending>>

\* The decorator factory, run once when the component class is defined.
Install ==
    /\ pc = "declared"
    /\ IF target.member
       THEN /\ pc' = "skipped"
            /\ log' = log \cup {"not a property"}
            /\ UNCHANGED options
       ELSE LET e0 == IF options.table THEN options.entry ELSE Entry("undefined", <<>>)
                e1 == IF e0.type = "object" THEN Entry("array", <<"object">>)
                      ELSE IF e0.type = "undefined" THEN Entry("array", <<>>)
                      ELSE e0
                log1 == IF OptTruthy(cacheOptions.except) /\ OptTruthy(cacheOptions.only)
                        THEN log \cup {"mutually exclusive"} ELSE log
            IN  /\ log' = log1
                /\ IF e1.type = "array"
                   THEN /\ pc' = "installed"
                        /\ options' = [options EXCEPT !.table = TRUE,
                                          !.entry = Entry("array", Append(e1.items, "cache")),
                                          !.hook = TRUE]
                   ELSE \* watch[key].push is not a function: TypeError
                        /\ pc' = "failed"
                        /\ options' = [options EXCEPT !.table = TRUE, !.entry = e1]
    /\ UNCHANGED <<decl, host, vm, store, readKeys, lastCreate, lastFlush, pending>>

\* the tag the framework gives the placeholder node of a child component
HostTag(cid, name) ==
    TagLit \o cid \o (IF name = <<>> THEN <<>> ELSE <<"-">> \o name)

\* the instance as makeKey sees it
HostVm ==
    [vnode |-> host.mount # "root",
     tag |-> IF host.mount = "child" THEN HostTag(host.cid, options.name) ELSE <<>>]

\* the watchers of the property, in the order they fire
Handlers(entry) ==
    CASE entry.type = "array" -> entry.items
      [] entry.type = "undefined" -> <<>>
      [] OTHER -> <<entry.type>>

\* store.getItem(k): the text stored under k, or null
TextAt(st, k) == IF k \in DOMAIN st THEN st[k] ELSE NoItem

\* the body of options.created for a property whose initialiser is
\* currentValue and whose stored text parsed to parsed: [raised, simple, final,
\* notify]
restore(currentValue, parsed) ==
    LET v == IF parsed.v.k \in {"null", "undef"} THEN currentValue ELSE parsed.v
        simple == TypeOf(currentValue) \in simpleTypes \/ v = Null
    IN  [raised |-> ~parsed.ok,
         simple |-> simple,
         final |-> IF ~parsed.ok THEN currentValue
                   ELSE IF simple THEN v ELSE merge(currentValue, v),
         \* the reactive setter notifies the watchers unless the value
         \* is the very same; merge always makes a new object
         notify |-> parsed.ok /\ (~simple \/ v # currentValue)]

\* The framework creates an instance: the property gets its initialiser, the
\* watchers of options.watch are set up, then options.created runs.
Create ==
    /\ pc \in {"installed", "skipped"}
    /\ ~vm.alive
    /\ IF ~options.hook
       THEN /\ vm' = [alive |-> TRUE, vnode |-> HostVm.vnode, tag |-> HostVm.tag,
                      prop |-> target.def, dirty |-> FALSE]
            /\ pending' = "none"
            /\ lastCreate' = [raised |-> FALSE, restored |-> FALSE,
                              old |-> IF options.old THEN 1 ELSE 0]
            /\ UNCHANGED <<readKeys, log>>
       ELSE LET currentValue == target.def
                mk == makeKey(HostVm, key, cacheOptions)
                text == IF mk.key \in DOMAIN store THEN store[mk.key] ELSE NoItem
                r == restore(currentValue, JsonParse(text))
                simple == r.simple
                raised == mk.err \/ r.raised
                final == IF raised THEN currentValue ELSE r.final
                notify == ~raised /\ r.notify
            IN  /\ vm' = [alive |-> TRUE, vnode |-> HostVm.vnode, tag |-> HostVm.tag,
                          prop |-> final, dirty |-> notify]
                /\ pending' = IF notify THEN "restore" ELSE "none"
                /\ lastCreate' = [raised |-> raised, restored |-> ~raised,
                                  old |-> IF ~raised /\ options.old THEN 1 ELSE 0]
                /\ readKeys' = IF mk.err THEN readKeys ELSE readKeys \cup {mk.key}
                /\ log' = log
                          \cup (IF mk.warn THEN {"no tag"} ELSE {})
                          \cup (IF ~raised /\ ~simple /\ ~Truthy(currentValue)
                                THEN {"no value"} ELSE {})
    /\ UNCHANGED <<decl, options, pc, host, store, lastFlush>>

\* The component assigns the property, or writes inside it.
Mutate ==
    /\ vm.alive
    /\ \E V \in PropValues :
          /\ V # vm.prop
          /\ vm' = [vm EXCEPT !.prop = V, !.dirty = Handlers(options.entry) # <<>>]
    /\ pending' = IF Handlers(options.entry) # <<>> THEN "assign" ELSE "none"
    /\ UNCHANGED <<decl, options, pc, log, host, store, readKeys, lastCreate, lastFlush>>

\* The component writes inside the value without replacing it: this[key].a = 0.
\* Only a deep watcher is notified; the component's own watchers are shallow.
Write ==
    /\ vm.alive
    /\ vm.prop.k = "obj"
    /\ KA \in DOMAIN vm.prop.f
    /\ vm.prop.f[KA] # Num(0)
    /\ LET hs == Handlers(options.entry)
           cache == (\E i \in 1..Len(hs) : hs[i] = "cache") /\ watchDeep(cacheOptions)
       IN  /\ vm' = [vm EXCEPT !.prop = Obj([vm.prop.f EXCEPT ![KA] = Num(0)]),
                               !.dirty = vm.dirty \/ cache]
           /\ pending' = IF pending = "none" /\ cache THEN "nested" ELSE pending
    /\ UNCHANGED <<decl, options, pc, log, host, store, readKeys, lastCreate, lastFlush>>

\* dispatched with a slip: the detail is the value as it is stored
dispatchedFiltered(opts, newValue) ==
    IF opts.globalDispatch # <<>>
    THEN <<[type |-> opts.globalDispatch, detail |-> modifier(opts, newValue).v]>>
    ELSE <<>>

\* the window events the decorator's handler dispatches for a new value
dispatched(opts, newValue) ==
    IF opts.globalDispatch # <<>>
    THEN <<[type |-> opts.globalDispatch, detail |-> newValue]>>
    ELSE <<>>

\* handlerOrder with a slip: the storage write comes first
handlerOrderWriteFirst == <<"setItem", "dispatch">>

\* the statements of the decorator's handler, in the order it runs them
handlerOrder == <<"dispatch", "setItem">>

\* The framework runs the property's watchers with the current value: the
\* pre-existing ones, then the handler the decorator pushed.
Flush ==
    /\ vm.alive
    /\ vm.dirty
    /\ LET hs == Handlers(options.entry)
           cache == \E i \in 1..Len(hs) : hs[i] = "cache"
           newValue == vm.prop
           mk == makeKey(HostVm, key, cacheOptions)
           m == IF mk.err THEN [err |-> TRUE, v |-> Undef]
                ELSE modifier(cacheOptions, newValue)
           wrote == cache /\ ~m.err
           after == IF wrote THEN (mk.key :> Stringify(m.v)) @@ store ELSE store
           \* a statement that raises ends the handler
           first == handlerOrder[1] = "dispatch"
           events == IF cache /\ (first \/ ~m.err)
                     THEN dispatched(cacheOptions, newValue) ELSE <<>>
           \* the text a listener finds under the key when the event reaches it
           seen == IF events = <<>> \/ mk.err THEN NoItem
                   ELSE TextAt(IF first THEN store ELSE after, mk.key)
       IN  /\ store' = after
           /\ lastFlush' = [pre |-> IF pending = "nested" THEN 0
                                    ELSE Cardinality({i \in 1..Len(hs) : hs[i] # "cache"}),
                            ran |-> cache, newValue |-> newValue, events |-> events,
                            seen |-> seen,
                            err |-> cache /\ m.err, wrote |-> wrote]
           /\ log' = IF cache /\ mk.warn THEN log \cup {"no tag"} ELSE log
    /\ vm' = [vm EXCEPT !.dirty = FALSE,
                        !.prop = IF (\E i \in 1..Len(Handlers(options.entry)) :
                                        Handlers(options.entry)[i] = "cache")
                                    /\ ~makeKey(HostVm, key, cacheOptions).err
                                 THEN liveAfter(cacheOptions, vm.prop) ELSE vm.prop]
    /\ pending' = "none"
    /\ UNCHANGED <<decl, options, pc, host, readKeys, lastCreate>>

\* The user leaves the component; a change not yet handled is dropped.
Destroy ==
    /\ vm.alive
    /\ vm' = NoVm
    /\ pending' = "none"
    /\ UNCHANGED <<decl, options, pc, log, host, store, readKeys, lastCreate, lastFlush>>

\* The page is loaded again: the Storage persists, and the framework may
\* number the component constructors differently.
Reload ==
    /\ pc \in {"installed", "skipped"}
    /\ ~vm.alive
    /\ \E c \in Cids : c # host.cid /\ host' = [host EXCEPT !.cid = c]
    /\ UNCHANGED <<decl, options, pc, log, vm, store, readKeys, lastCreate, lastFlush,
                   pending>>

\* the tag assembled from its parts
TagOf(in) ==
    (IF in.pre THEN TagLit ELSE <<>>) \o in.digits
    \o (IF in.dash THEN <<"-">> ELSE <<>>) \o in.name

\* A stand-alone call of makeKey on arguments drawn from KeyInputs.
ResolveKey ==
    /\ \E in \in KeyInputs :
          /\ kin' = in
          /\ kout' = [done |-> TRUE] @@
                      makeKey([vnode |-> in.vnode, tag |-> TagOf(in)], in.key,
                              Opts(NoNames, NoNames, <<>>, in.cacheKey))
    /\ UNCHANGED <<cacheOptions, key, target, options, pc, log, host, vm, store,
                   readKeys, lastCreate, lastFlush, pending, comp>>

Next == Install \/ Create \/ Mutate \/ Write \/ Flush \/ Destroy \/ Reload

Spec == Init /\ [][Next]_vars

\* a component whose decorator is given globalDispatch or not
InitDispatch ==
    /\ \E e \in {NoNames, OneName(KA)}, o \in {NoNames, NameList(<<KEmpty, KA>>)},
          g \in {<<>>, <<"e", "v">>} :
          /\ (e = NoNames \/ o = NoNames)
          /\ cacheOptions = Opts(e, o, g, <<>>)
    /\ key = Chr("f")
    /\ target = [def |-> ObjDefault, member |-> FALSE]
    /\ options = Component(NamedTb, Entry("undefined", <<>>), TRUE, TRUE)
    /\ \E c \in Cids : host = [cid |-> c, mount |-> "child"]
    /\ kin = NoKin /\ kout = NoKout
    /\ InitRest

SpecDispatch == InitDispatch /\ [][Next]_vars

\* named and unnamed components, with and without cacheKey
InitKeys ==
    /\ \E c \in {<<>>, Chr("K")} : cacheOptions = Opts(NoNames, NoNames, <<>>, c)
    /\ key = Chr("f")
    /\ target = [def |-> ObjDefault, member |-> FALSE]
    /\ \E n \in {<<>>, NamedTb} :
          options = Component(n, Entry("undefined", <<>>), TRUE, TRUE)
    /\ \E c \in Cids : host = [cid |-> c, mount |-> "child"]
    /\ kin = NoKin /\ kout = NoKout
    /\ InitRest

SpecKeys == InitKeys /\ [][Next]_vars

\* components that already declare a watcher on the property, in every form
InitInstall ==
    /\ cacheOptions = Opts(NoNames, NoNames, <<>>, <<>>)
    /\ key = Chr("f")
    /\ \E m \in BOOLEAN : target = [def |-> ObjDefault, member |-> m]
    /\ \E e \in WatchEntries, t \in BOOLEAN, old \in BOOLEAN :
          /\ (~t => e.type = "undefined")
          /\ options = Component(NamedTb, e, t, old)
    /\ \E c \in Cids : host = [cid |-> c, mount |-> "child"]
    /\ kin = NoKin /\ kout = NoKout
    /\ InitRest

SpecInstall == InitInstall /\ [][Next]_vars

\* makeKey alone, on every argument of KeyInputs
InitKey ==
    /\ cacheOptions = Opts(NoNames, NoNames, <<>>, <<>>)
    /\ key = Chr("f")
    /\ target = [def |-> ObjDefault, member |-> FALSE]
    /\ options = Component(NamedTb, Entry("undefined", <<>>), TRUE, TRUE)
    /\ host = [cid |-> CidDigits[1], mount |-> "child"]
    /\ kin = NoKin /\ kout = NoKout
    /\ InitRest

NextKey == ResolveKey

SpecKey == InitKey /\ [][NextKey]_vars

\* ------------------------------------------- several decorated properties
\* the largest number of decorated properties of one component
MaxBindings == 2

\* the decorated properties, in the order the class declares them
CompProps == <<Chr("f"), Chr("g"), Chr("h"), Chr("i")>>

CompDefault(p) == IF p = Chr("g") THEN Num(42) ELSE ObjDefault

\* the values a mutation may give a property of the component
CompValues == {Undef, Num(5), Obj2(KA, Num(2), KB, Num(3))}

\* the layer of options.created that is the component's own hook
Own == <<>>

PropSet(c) == {c.props[i] : i \in 1..Len(c.props)}

CompKey(p) == makeKey(HostVm, p, cacheOptions).key

\* comp is [props, done, created, watch, alive, vals, dirty, ran, raised]:
\* the decorators pushed to Ctor.__decorators__, how many of their factories
\* have run, options.created as its layers (outermost first, Own being the
\* component's own hook), options.watch, the live instance's properties,
\* those with a change not yet handled, and the layers the latest creation ran.
InitCompose ==
    /\ cacheOptions = Opts(NoNames, NoNames, <<>>, <<>>)
    /\ key = Chr("f")
    /\ target = [def |-> ObjDefault, member |-> FALSE]
    /\ options = Component(NamedTb, Entry("undefined", <<>>), TRUE, TRUE)
    /\ host = [cid |-> CidDigits[1], mount |-> "child"]
    /\ kin = NoKin /\ kout = NoKout
    /\ pc = "declared" /\ log = {} /\ vm = NoVm /\ store = EmptyF /\ readKeys = {}
    /\ lastCreate = NoCreate /\ lastFlush = NoFlush /\ pending = "none"
    /\ \E n \in 1..MaxBindings :
          comp = [props |-> SubSeq(CompProps, 1, n), done |-> 0, created |-> <<Own>>,
                  watch |-> [p \in {CompProps[i] : i \in 1..n} |-> <<>>],
                  alive |-> FALSE,
                  vals |-> [p \in {CompProps[i] : i \in 1..n} |-> Undef],
                  dirty |-> {}, ran |-> <<>>, raised |-> FALSE]

\* The factory of the next decorator runs on the component's options: it
\* pushes its handler to the property's watchers and wraps options.created.
InstallNext ==
    /\ comp.done < Len(comp.props)
    /\ LET p == comp.props[comp.done + 1]
       IN  comp' = [comp EXCEPT !.done = @ + 1,
                                !.watch[p] = Append(@, "cache"),
                                !.created = <<p>> \o @]
    /\ UNCHANGED <<cacheOptions, key, target, options, pc, log, host, vm, store,
                   readKeys, lastCreate, lastFlush, pending, kin, kout>>

\* options.created from layer i on: a layer restores its property and then
\* calls the hook it wrapped; a layer that raises ends the run
RECURSIVE RunCreated(_, _, _)
RunCreated(layers, i, acc) ==
    IF i > Len(layers) THEN acc
    ELSE IF layers[i] = Own
    THEN RunCreated(layers, i + 1, [acc EXCEPT !.ran = Append(@, Own)])
    ELSE LET p == layers[i]
             r == restore(acc.vals[p], JsonParse(TextAt(store, CompKey(p))))
         IN  IF r.raised THEN [acc EXCEPT !.raised = TRUE, !.read = @ \cup {CompKey(p)}]
             ELSE RunCreated(layers, i + 1,
                     [acc EXCEPT !.vals[p] = r.final,
                                 !.ran = Append(@, p),
                                 !.read = @ \cup {CompKey(p)},
                                 !.dirty = IF r.notify THEN @ \cup {p} ELSE @])

\* The framework creates an instance of the component.
CreateAll ==
    /\ comp.done = Len(comp.props)
    /\ ~comp.alive
    /\ LET r == RunCreated(comp.created, 1,
                    [vals |-> [p \in PropSet(comp) |-> CompDefault(p)], ran |-> <<>>,
                     raised |-> FALSE, dirty |-> {}, read |-> {}])
       IN  /\ comp' = [comp EXCEPT !.alive = TRUE, !.vals = r.vals, !.ran = r.ran,
                                    !.raised = r.raised, !.dirty = r.dirty]
           /\ readKeys' = readKeys \cup r.read
    /\ UNCHANGED <<cacheOptions, key, target, options, pc, log, host, vm, store,
                   lastCreate, lastFlush, pending, kin, kout>>

\* The component assigns one of its properties.
MutateOne ==
    /\ comp.alive
    /\ \E p \in PropSet(comp), V \in CompValues :
          /\ V # comp.vals[p]
          /\ comp' = [comp EXCEPT !.vals[p] = V,
                                   !.dirty = IF comp.watch[p] # <<>> THEN @ \cup {p} ELSE @]
    /\ UNCHANGED <<cacheOptions, key, target, options, pc, log, host, vm, store,
                   readKeys, lastCreate, lastFlush, pending, kin, kout>>

\* The framework runs the watchers of every changed property.
FlushAll ==
    /\ comp.alive
    /\ comp.dirty # {}
    /\ store' = [k \in (DOMAIN store) \cup {CompKey(p) : p \in comp.dirty} |->
                    IF \E p \in comp.dirty : CompKey(p) = k
                    THEN LET p == CHOOSE q \in comp.dirty : CompKey(q) = k
                         IN  Stringify(modifier(cacheOptions, comp.vals[p]).v)
                    ELSE store[k]]
    /\ comp' = [comp EXCEPT !.dirty = {}]
    /\ UNCHANGED <<cacheOptions, key, target, options, pc, log, host, vm,
                   readKeys, lastCreate, lastFlush, pending, kin, kout>>

\* The user leaves the component.
DestroyAll ==
    /\ comp.alive
    /\ comp' = [comp EXCEPT !.alive = FALSE, !.dirty = {}]
    /\ UNCHANGED <<cacheOptions, key, target, options, pc, log, host, vm, store,
                   readKeys, lastCreate, lastFlush, pending, kin, kout>>

NextCompose == InstallNext \/ CreateAll \/ MutateOne \/ FlushAll \/ DestroyAll

SpecCompose == InitCompose /\ [][NextCompose]_vars

\* instances the host gives a placeholder node with a tag (a child), a node
\* without a tag, or no node at all (a root instance)
InitIdentity ==
    /\ \E c \in {<<>>, Chr("K")} : cacheOptions = Opts(NoNames, NoNames, <<>>, c)
    /\ key = Chr("f")
    /\ \E d \in {Num(42), ObjDefault} : target = [def |-> d, member |-> FALSE]
    /\ options = Component(NamedTb, Entry("undefined", <<>>), TRUE, TRUE)
    /\ \E c \in Cids, m \in {"child", "notag", "root"} : host = [cid |-> c, mount |-> m]
    /\ kin = NoKin /\ kout = NoKout
    /\ InitRest

SpecIdentity == InitIdentity /\ [][Next]_vars

\* the documented deep option left unset, set to true, set to false
InitDeep ==
    /\ \E d \in {"unset", "true", "false"} :
          cacheOptions = IF d = "unset" THEN Opts(NoNames, NoNames, <<>>, <<>>)
                         ELSE WithDeep(Opts(NoNames, NoNames, <<>>, <<>>), d = "true")
    /\ key = Chr("f")
    /\ \E d \in {Num(42), ObjDefault} : target = [def |-> d, member |-> FALSE]
    /\ options = Component(NamedTb, Entry("undefined", <<>>), TRUE, TRUE)
    /\ \E c \in Cids : host = [cid |-> c, mount |-> "child"]
    /\ kin = NoKin /\ kout = NoKout
    /\ InitRest

SpecDeep == InitDeep /\ [][Next]_vars

\* a decorator given both an except and an only option
InitBoth ==
    /\ \E e \in ExceptChoices \ {NoNames}, o \in OnlyChoices \ {NoNames} :
          cacheOptions = Opts(e, o, <<>>, <<>>)
    /\ key = Chr("f")
    /\ \E d \in {Num(42), ObjDefault} : target = [def |-> d, member |-> FALSE]
    /\ options = Component(NamedTb, Entry("undefined", <<>>), TRUE, TRUE)
    /\ \E c \in Cids : host = [cid |-> c, mount |-> "child"]
    /\ kin = NoKin /\ kout = NoKout
    /\ InitRest

SpecBoth == InitBoth /\ [][Next]_vars

\* ------------------------------------------------------------- the claims
\* a step that creates an instance
CreateStep == ~vm.alive /\ vm'.alive

\* a step in which the property's watchers run
FlushStep == vm.alive /\ vm.dirty /\ vm'.alive /\ ~vm'.dirty

\* the key the component's instances resolve in the current page session
ResolvedKey == makeKey(HostVm, key, cacheOptions).key

Names(o) == {o.names[i] : i \in 1..Len(o.names)}

Restrict(f, ks) == [k \in (DOMAIN f) \cap ks |-> f[k]]

\* the filter as the specification states it: the named top-level fields
\* removed (except), or every other top-level field removed (only)
FilterSpec(V, opts) ==
    IF OptTruthy(opts.except) THEN Obj(Restrict(V.f, (DOMAIN V.f) \ Names(opts.except)))
    ELSE IF OptTruthy(opts.only) THEN Obj(Restrict(V.f, Names(opts.only)))
    ELSE V

\* D overlaid at top level by S
Overlay(D, S) ==
    Obj([k \in (DOMAIN D.f) \cup (DOMAIN S.f) |->
            IF k \in DOMAIN S.f THEN S.f[k] ELSE D.f[k]])

\* C1: when the latest run of the change handler saved the object V and the
\* initialiser D is an object, an instance created next has the property equal
\* to D overlaid at top level by the filtered V, for every filter configuration.
C1_RoundTrip ==
    [][(/\ CreateStep
        /\ lastFlush.wrote
        /\ lastFlush.newValue.k = "obj"
        /\ target.def.k = "obj")
       => vm'.prop = Overlay(target.def, FilterSpec(lastFlush.newValue, cacheOptions))]_vars

Scalars == {"num", "str", "bool"}

\* C2: when the stored text deserializes to a number, a string, a boolean or
\* null, the created instance has the property equal to exactly that value,
\* whatever the initialiser is.
C2_ScalarReplaces ==
    [][(/\ CreateStep
        /\ options.hook
        /\ JsonParse(TextAt(store, ResolvedKey)).ok
        /\ ResolvedKey \in DOMAIN store
        /\ JsonParse(TextAt(store, ResolvedKey)).v.k \in Scalars \cup {"null"})
       => vm'.prop = JsonParse(TextAt(store, ResolvedKey)).v]_vars

\* C3: when the stored text is not valid JSON, the created hook does not
\* raise, the property ends equal to the initialiser and the component's own
\* created hook runs.
C3_BadJsonIsAbsent ==
    [][(/\ CreateStep
        /\ options.hook
        /\ ~JsonParse(TextAt(store, ResolvedKey)).ok)
       => (/\ ~lastCreate'.raised
           /\ vm'.prop = target.def
           /\ lastCreate'.old = 1)]_vars

\* C4: when the key is not stored, the created instance has the property
\* structurally equal to the initialiser: a number, a string, a boolean, a
\* plain object or an array (which stays an array).
C4_AbsentKeepsDefault ==
    [][(/\ CreateStep
        /\ options.hook
        /\ ResolvedKey \notin DOMAIN store
        /\ target.def.k \in Scalars \cup {"obj", "arr"})
       => vm'.prop = target.def]_vars

\* C5: with except configured, after a run of the change handler for the
\* object V the text stored under the resolved key is the serialization of V
\* without exactly the top-level fields named in except; every other field
\* keeps its value and a named field V lacks raises nothing.
C5_ExceptStored ==
    [][(/\ FlushStep
        /\ pc = "installed"
        /\ OptTruthy(cacheOptions.except)
        /\ vm.prop.k = "obj")
       => LET kept == Obj(Restrict(vm.prop.f, (DOMAIN vm.prop.f) \ Names(cacheOptions.except)))
              text == TextAt(store', ResolvedKey)
          IN  /\ ~lastFlush'.err
              /\ lastFlush'.wrote
              /\ text = Ser(kept)
              /\ JsonParse(text).ok
              /\ DOMAIN JsonParse(text).v.f = (DOMAIN vm.prop.f) \ Names(cacheOptions.except)
              /\ \A k \in DOMAIN JsonParse(text).v.f : JsonParse(text).v.f[k] = vm.prop.f[k]]_vars

\* C5 witness: an object was saved under except, a field of it named in except
\* is missing from the stored text, and another name of except is a field the
\* object never had.
C5_Witness ==
    /\ pc = "installed"
    /\ OptTruthy(cacheOptions.except)
    /\ vm.alive /\ ~vm.dirty
    /\ lastFlush.wrote /\ lastFlush.newValue = vm.prop
    /\ vm.prop.k = "obj"
    /\ \E e \in Names(cacheOptions.except) : e \in DOMAIN vm.prop.f
    /\ \E e \in Names(cacheOptions.except) : e \notin DOMAIN vm.prop.f
    /\ \E k \in DOMAIN vm.prop.f : k \notin Names(cacheOptions.except)
    /\ JsonParse(TextAt(store, ResolvedKey)).ok
    /\ DOMAIN JsonParse(TextAt(store, ResolvedKey)).v.f # DOMAIN vm.prop.f

\* C6: with only configured and except not, after a run of the change
\* handler for the object V the stored value has exactly the top-level fields
\* of V named in only, each with V's value.
C6_OnlyStored ==
    [][(/\ FlushStep
        /\ pc = "installed"
        /\ ~OptTruthy(cacheOptions.except)
        /\ OptTruthy(cacheOptions.only)
        /\ vm.prop.k = "obj")
       => LET text == TextAt(store', ResolvedKey)
          IN  /\ lastFlush'.wrote
              /\ JsonParse(text).ok
              /\ JsonParse(text).v =
                    Obj(Restrict(vm.prop.f, Names(cacheOptions.only)))]_vars

\* C7: with globalDispatch configured, every run of the change handler raises
\* exactly one event of that name whose detail is the unfiltered new value;
\* without it no event is ever raised; no other step raises an event.
C7_Dispatch ==
    [][/\ (FlushStep /\ pc = "installed")
            => lastFlush'.events =
                  IF cacheOptions.globalDispatch # <<>>
                  THEN <<[type |-> cacheOptions.globalDispatch, detail |-> vm.prop]>>
                  ELSE <<>>
       /\ ~FlushStep => lastFlush'.events = lastFlush.events
       /\ cacheOptions.globalDispatch = <<>> => lastFlush'.events = <<>>]_vars

\* C7 witness: an event was raised whose detail holds a field that the text
\* stored in the same run lacks.
C7_Witness ==
    /\ cacheOptions.globalDispatch # <<>>
    /\ Len(lastFlush.events) = 1
    /\ lastFlush.wrote
    /\ lastFlush.events[1].detail.k = "obj"
    /\ JsonParse(TextAt(store, ResolvedKey)).ok
    /\ \E k \in DOMAIN lastFlush.events[1].detail.f :
          k \notin DOMAIN JsonParse(TextAt(store, ResolvedKey)).v.f

\* C8: whatever form the component's own watcher on the property has (a
\* function, a method name, an options object, an array of these), installing
\* the binding does not fail, and the watchers of the property are then the
\* pre-existing ones, in place, followed by the binding's handler.
C8_WatchersKept ==
    [][(/\ pc = "declared"
        /\ pc' # "declared"
        /\ ~target.member
        /\ options.entry.type # "undefined")
       => (/\ pc' = "installed"
           /\ Handlers(options'.entry) = Append(Handlers(options.entry), "cache"))]_vars

C10_KeyStable ==
    cacheOptions.cacheKey = <<>> => Cardinality(readKeys \cup DOMAIN store) <= 1

\* C11: when the host gives the instance no node, or a node without a tag, and
\* no cacheKey is configured, the restore and the save raise nothing, use the
\* bare property name as the storage key, and log a warning.
C11_NoIdentity ==
    [][(/\ host.mount # "child"
        /\ cacheOptions.cacheKey = <<>>
        /\ pc = "installed")
       => (/\ CreateStep
              => (/\ readKeys' = readKeys \cup {key}
                  /\ "no tag" \in log'
                  /\ JsonParse(TextAt(store, key)).ok => ~lastCreate'.raised)
           /\ FlushStep
              => (/\ ~lastFlush'.err
                  /\ lastFlush'.wrote
                  /\ DOMAIN store' = {key}
                  /\ "no tag" \in log'))]_vars

\* a step that writes inside the property's value
WriteStep ==
    /\ vm.alive /\ vm'.alive
    /\ vm'.prop # vm.prop
    /\ vm'.prop.k = "obj"
    /\ KA \in DOMAIN vm'.prop.f
    /\ vm'.prop.f[KA] = Num(0)

\* C12: the binding's watcher is deep when the deep option is true or unset:
\* a write inside the value is then handled; it is shallow when deep is false:
\* a change that is only a write inside the value then causes no storage write.
C12_DeepOption ==
    [][/\ (WriteStep /\ pc = "installed" /\ DeepOption(cacheOptions) # "false")
            => vm'.dirty
       /\ (pending = "nested" /\ DeepOption(cacheOptions) = "false")
            => store' = store]_vars

\* C13: the restore at creation is over before the binding's watcher exists:
\* the watcher is never notified of the restore's own set, and no storage write
\* is made for a change that is only the restore.
C13_RestoreUnobserved ==
    [][/\ (CreateStep /\ options.hook) => (~vm'.dirty /\ pending' = "none")
       /\ pending = "restore" => store' = store]_vars

\* C14: when the decorated member is not a plain data property, the binding
\* is skipped: the factory leaves the component's options as they are, no
\* storage read or write is ever made, and nothing is raised.
C14_MemberSkipped ==
    [][target.member
       => (/\ options' = options
           /\ pc' \in {"declared", "skipped"}
           /\ store' = EmptyF
           /\ readKeys' = {}
           /\ ~lastCreate'.raised
           /\ ~lastCreate'.restored
           /\ ~lastFlush'.ran
           /\ ~lastFlush'.err)]_vars

\* C14 witness: the decorator was put on a member, and an instance was created
\* and changed: the component's own created hook and own watcher ran.
C14_Witness ==
    /\ target.member
    /\ pc = "skipped"
    /\ "not a property" \in log
    /\ vm.alive
    /\ lastCreate.old = 1
    /\ lastFlush.pre >= 1

\* C15: when both except and only are configured, the factory logs a
\* configuration error and still installs the binding, and every run of the
\* change handler stores the value without the fields named in except, the
\* only list playing no part, for every value and every pair of lists.
C15_BothFilters ==
    [][(OptTruthy(cacheOptions.except) /\ OptTruthy(cacheOptions.only))
       => (/\ (pc = "declared" /\ pc' # "declared")
              => (pc' = "installed" /\ "mutually exclusive" \in log')
           /\ (FlushStep /\ pc = "installed")
              => LET V == vm.prop
                     kept == IF V.k = "obj"
                             THEN Obj(Restrict(V.f, (DOMAIN V.f) \ Names(cacheOptions.except)))
                             ELSE V
                 IN  /\ ~lastFlush'.err
                     /\ lastFlush'.wrote
                     /\ TextAt(store', ResolvedKey) = Stringify(kept))]_vars

\* C15 witness: with both configured, an object was saved; the stored text
\* lacks a field named in except and holds a field the only list does not name.
C15_Witness ==
    /\ OptTruthy(cacheOptions.except) /\ OptTruthy(cacheOptions.only)
    /\ "mutually exclusive" \in log
    /\ lastFlush.wrote
    /\ lastFlush.newValue.k = "obj"
    /\ JsonParse(TextAt(store, ResolvedKey)).ok
    /\ \E k \in DOMAIN lastFlush.newValue.f :
          k \notin DOMAIN JsonParse(TextAt(store, ResolvedKey)).v.f
    /\ \E k \in DOMAIN JsonParse(TextAt(store, ResolvedKey)).v.f :
          k \notin Names(cacheOptions.only)

\* C16: whatever values the property was given, every text the binding has
\* stored is valid JSON, which the restore of a later creation can deserialize.
C16_StoredIsJson ==
    \A k \in DOMAIN store : JsonParse(store[k]).ok

\* C17: a run of the change handler leaves the live property as it was, with
\* all of its fields, for every value and every filter configuration.
C17_LiveUntouched ==
    [][FlushStep => vm'.prop = vm.prop]_vars

\* C17 witness: a filter is configured, the handler stored an object without
\* some of its fields, and the live property still has them.
C17_Witness ==
    /\ OptTruthy(cacheOptions.except) \/ OptTruthy(cacheOptions.only)
    /\ vm.alive /\ ~vm.dirty
    /\ lastFlush.wrote
    /\ lastFlush.newValue.k = "obj"
    /\ vm.prop = lastFlush.newValue
    /\ JsonParse(TextAt(store, ResolvedKey)).ok
    /\ JsonParse(TextAt(store, ResolvedKey)).v.k = "obj"
    /\ \E k \in DOMAIN vm.prop.f : k \notin DOMAIN JsonParse(TextAt(store, ResolvedKey)).v.f

\* how many times x occurs in seq
Count(seq, x) == Cardinality({i \in 1..Len(seq) : seq[i] = x})

\* C18: on a component with several decorated properties and a created hook
\* of its own, installing a binding keeps the restores and watchers of the
\* bindings installed before it, and each creation runs the restore of every
\* decorated property exactly once and then the component's own hook exactly
\* once, after all the restores.
C18_Composition ==
    [][/\ comp'.done > comp.done
            => (/\ \A q \in PropSet(comp) : Count(comp'.created, q) >= Count(comp.created, q)
                /\ \A q \in PropSet(comp) \ {comp.props[comp.done + 1]} :
                      comp'.watch[q] = comp.watch[q]
                /\ Count(comp'.created, Own) = 1)
       /\ (~comp.alive /\ comp'.alive)
            => (/\ \A p \in PropSet(comp) : Count(comp'.ran, p) = 1
                /\ Count(comp'.ran, Own) = 1
                /\ comp'.ran[Len(comp'.ran)] = Own)]_vars

\* C19: in a run of the change handler with globalDispatch configured, the
\* event is raised before the storage write: when the event is delivered the
\* storage still holds the text it held before the run, and when the write
\* fails the event has been raised all the same.
C19_DispatchFirst ==
    [][(/\ FlushStep
        /\ pc = "installed"
        /\ cacheOptions.globalDispatch # <<>>)
       => (/\ Len(lastFlush'.events) = 1
           /\ lastFlush'.seen = TextAt(store, ResolvedKey)
           /\ lastFlush'.err => (store' = store /\ Len(lastFlush'.events) = 1))]_vars

\* C19 witness: an event was raised in a run that then replaced the stored
\* text: the listener found the previous text under the key.
C19_Witness ==
    /\ cacheOptions.globalDispatch # <<>>
    /\ Len(lastFlush.events) = 1
    /\ lastFlush.wrote
    /\ lastFlush.seen # NoItem
    /\ lastFlush.seen # TextAt(store, ResolvedKey)

====
